---- MODULE Spec2Model ----
(***************************************************************************)
(* pyopus: the Encoder / Decoder facades (encoder.py, decoder.py), the     *)
(* state allocator (base.py), the argument checks (utils.py), the control  *)
(* protocol (ctl.py) and the thin wrappers round the native library        *)
(* (llinterface.py).                                                       *)
(*                                                                         *)
(* Codec instances live in the slots Insts; caller threads 1..NumThreads   *)
(* construct instances and call encode / decode / decode_plc_fec and the   *)
(* control accessors on them.  Every call into the native library is a     *)
(* step of its own, so that two threads can be inside the library at once. *)
(* The native library is an external collaborator: its status codes and    *)
(* result sizes are chosen nondeterministically.                           *)
(***************************************************************************)
EXTENDS Integers, Sequences, FiniteSets, TLC

VARIABLES inst, nat, lock, buf, th

vars == <<inst, nat, lock, buf, th>>

-----------------------------------------------------------------------------
(* Bounds of the model *)

NumThreads == 2
MaxFrameDuration == 2
\* a frame duration past the longest Opus frame (24 x 2.5 ms = 60 ms)
LongFrameDuration == 25
MaxCtlValue == 1
MaxPcmLen == 2
MaxPayloadBytes == 1
MaxPacketFrames == 1

Threads == 1..NumThreads
\* two instance slots: the claims speak of one instance or of two
Insts == {1, 2}

-----------------------------------------------------------------------------
(* Program constants *)

\* constants.py: OpusError.OK, BAD_ARG, INVALID_PACKET (values of libopus)
OK == 0
BAD_ARG == -1
INVALID_PACKET == -4

\* encoder.py: OpusApplicationType
APPLICATION_VOIP == 2048
APPLICATION_AUDIO == 2049
APPLICATION_RESTRICTED_LOWDELAY == 2051

\* encoder.py / decoder.py buffer sizes
PAYLOAD_BUFFER_SIZE == 4096
PCM_BUFFER_SAMPLES == 2880

\* decoder.py: MIN_FRAME_DURATION = 0.0025 s, i.e. 1/400 s
MIN_FRAME_DURATION_DIV == 400

\* utils.py
_SUPPORTED_FREQS == {8000, 12000, 16000, 24000, 48000}
_SUPPORTED_CHANNELS == {1, 2}
_SUPPORTED_APPLICATIONS ==
    {APPLICATION_VOIP, APPLICATION_AUDIO, APPLICATION_RESTRICTED_LOWDELAY}

\* status codes the native library can answer with when it fails
NativeErrors == {BAD_ARG, INVALID_PACKET}
NativeStatuses == {OK} \cup NativeErrors

-----------------------------------------------------------------------------
(* Errors *)

\* llinterface.strerror: the native error-to-string lookup for a code
strerror(code) == <<"opus_strerror", code>>

NoError ==
    [etype |-> "none", errno |-> 0, has_errno |-> FALSE, text |-> <<>>,
     field |-> "", accepted |-> {}]

\* llinterface.OpusError(errno): carries the code and its native text
OpusError(code) ==
    [NoError EXCEPT !.etype = "OpusError", !.errno = code,
                    !.has_errno = TRUE, !.text = strerror(code)]

\* ValueError: field is what the message names, accepted the values it
\* lists as supported (empty when it lists none)
ValueError(field, accepted) ==
    [NoError EXCEPT !.etype = "ValueError", !.field = field,
                    !.accepted = accepted]

\* `.value` read from a plain int (llinterface.encoder_init, line 185)
AttributeError ==
    [NoError EXCEPT !.etype = "AttributeError", !.field = "value"]

\* a member read from an Enum class that does not define it
MissingMember(name) ==
    [NoError EXCEPT !.etype = "AttributeError", !.field = name]

-----------------------------------------------------------------------------
(* utils.py: argument checks.  Each yields NoError or the error it raises. *)

check_freq(frequency) ==
    IF frequency \notin _SUPPORTED_FREQS
    THEN ValueError("frequency", _SUPPORTED_FREQS)
    ELSE NoError

\* variant: any positive channel count passes
check_channels_positive(channels) ==
    IF channels < 1
    THEN ValueError("channels", _SUPPORTED_CHANNELS)
    ELSE NoError

check_channels(channels) ==
    IF channels \notin _SUPPORTED_CHANNELS
    THEN ValueError("channels", _SUPPORTED_CHANNELS)
    ELSE NoError

\* the message names the coding mode but lists no accepted values
check_application(application) ==
    IF application \notin _SUPPORTED_APPLICATIONS
    THEN ValueError("coding mode", {})
    ELSE NoError

-----------------------------------------------------------------------------
(* Instances and their construction *)

NoInst ==
    [status |-> "none", kind |-> "none", freq |-> 0, channels |-> 0,
     mode |-> 0, min_frame_samples |-> 0, calls |-> <<>>, err |-> NoError]

\* A constructed instance: calls is the sequence of native / allocator
\* calls its constructor made, err the error it raised (NoError if none).
Instance(kind, frequency, channels, mode, mfs, calls, err) ==
    [status |-> IF err = NoError THEN "live" ELSE "failed",
     kind |-> kind, freq |-> frequency, channels |-> channels,
     mode |-> mode, min_frame_samples |-> mfs, calls |-> calls, err |-> err]

\* the first error of a sequence of checks run in order
FirstError(checks) ==
    IF \A k \in 1..Len(checks) : checks[k] = NoError
    THEN NoError
    ELSE checks[CHOOSE k \in 1..Len(checks) :
                    /\ checks[k] # NoError
                    /\ \A j \in 1..(k - 1) : checks[j] = NoError]

\* llinterface.encoder_init(st, Fs, channels, application): reads
\* application.value, calls the native init and raises on a non-OK status.
\* has_value says whether the object it is handed has a `.value` attribute.
encoder_init(has_value, status) ==
    IF ~has_value
    THEN [calls |-> <<>>, err |-> AttributeError]
    ELSE [calls |-> <<"opus_encoder_init">>,
          err |-> IF status # OK THEN OpusError(status) ELSE NoError]

\* variant: the status of the native init is not looked at
decoder_init_unchecked(status) ==
    [calls |-> <<"opus_decoder_init">>, err |-> NoError]

\* llinterface.decoder_init(st, Fs, channels)
decoder_init(status) ==
    [calls |-> <<"opus_decoder_init">>,
     err |-> IF status # OK THEN OpusError(status) ELSE NoError]

\* What the binding hands back from opus_repacketizer_init: the handle, or
\* None for a null handle
RepacketizerInitResults == {"handle", "None"}

\* llinterface.repacketizer_init(rp): `if result is None: raise
\* OpusError(OPUS_INVALID_PACKET)`
repacketizer_init(result) ==
    [calls |-> <<"opus_repacketizer_init">>,
     err |-> IF result = "None" THEN OpusError(INVALID_PACKET) ELSE NoError]

\* variant: _init_state is run a second time on the allocated block
ManagedState_init_twice(size_call, init) ==
    [calls |-> <<size_call, "ffi.new">> \o init.calls \o init.calls,
     err |-> init.err]

\* base.ManagedState.__init__: size query, allocation, then _init_state
ManagedState_init(size_call, init) ==
    [calls |-> <<size_call, "ffi.new">> \o init.calls, err |-> init.err]

\* What BaseOpusEncoder.__init__ hands to encoder_init as `application`:
\* self._mode.value, the value of the enum member (encoder.py line 96).
\* application is [code, member]: application.value compares equal to the
\* int code, and member says whether application.value is itself an enum
\* member (has its own .value) rather than a plain int.
ModeValueHasValue(application) == application.member

\* BaseOpusEncoder.__init__
BaseOpusEncoder_init(frequency, channels, application, status) ==
    LET v == FirstError(<<check_freq(frequency), check_channels(channels),
                          check_application(application.code)>>)
        m == ManagedState_init("opus_encoder_get_size",
                 encoder_init(ModeValueHasValue(application), status))
    IN  IF v # NoError
        THEN Instance("encoder", frequency, channels, application.code, 0,
                      <<>>, v)
        ELSE Instance("encoder", frequency, channels, application.code, 0,
                      m.calls, m.err)

\* variant: the state is allocated and initialised before the checks run
BaseOpusDecoder_init_late(frequency, channels, status) ==
    LET v == FirstError(<<check_freq(frequency), check_channels(channels)>>)
        m == ManagedState_init("opus_decoder_get_size", decoder_init(status))
    IN  IF m.err # NoError
        THEN Instance("decoder", frequency, channels, 0, 0, m.calls, m.err)
        ELSE Instance("decoder", frequency, channels, 0,
                      frequency \div MIN_FRAME_DURATION_DIV, m.calls, v)

\* BaseOpusDecoder.__init__
BaseOpusDecoder_init(frequency, channels, status) ==
    LET v == FirstError(<<check_freq(frequency), check_channels(channels)>>)
        m == ManagedState_init("opus_decoder_get_size", decoder_init(status))
    IN  IF v # NoError
        THEN Instance("decoder", frequency, channels, 0, 0, <<>>, v)
        ELSE Instance("decoder", frequency, channels, 0,
                      frequency \div MIN_FRAME_DURATION_DIV, m.calls, m.err)

\* OpusRepacketizer.__init__: no arguments, no checks
OpusRepacketizer_init(result) ==
    LET m == ManagedState_init("opus_repacketizer_get_size",
                               repacketizer_init(result))
    IN  Instance("repacketizer", 0, 0, 0, 0, m.calls, m.err)

-----------------------------------------------------------------------------
(* Values, scratch buffers and the native state block *)

Min(a, b) == IF a < b THEN a ELSE b

\* Python values handed to and returned by the facade
NoVal == [t |-> "none", i |-> 0, b |-> FALSE, by |-> 0, stale |-> FALSE]
PyInt(n) == [NoVal EXCEPT !.t = "int", !.i = n]
PyBool(x) == [NoVal EXCEPT !.t = "bool", !.b = x]

\* A scratch buffer (encoder _out/_buf, decoder _pcm): its first n cells
\* hold what the native call of thread `by` wrote last; cap is its size.
NewBuf(cap) == [by |-> 0, n |-> 0, cap |-> cap]

\* the native primitive of thread t writes n cells from the start
NativeWrite(b, t, n) == [b EXCEPT !.by = t, !.n = n]

\* buffer[0:m], copied out: m cells (at most cap), written by b.by; stale
\* when the slice reaches past what that call wrote
Slice(b, m) ==
    [t |-> "buf", i |-> Min(m, b.cap), b |-> FALSE, by |-> b.by,
     stale |-> Min(m, b.cap) > b.n]

\* the control fields of the native state block
Fields ==
    {"final_range", "pitch", "bandwidth", "complexity", "bitrate", "vbr",
     "vbr_constraint", "force_channels", "max_bandwidth", "signal",
     "application", "sample_rate", "lookahead", "inband_fec",
     "packet_loss_perc", "dtx", "lsb_depth", "last_packet_duration",
     "expert_frame_duration", "prediction_disabled", "gain"}

\* native state block: inits counts native init calls, init_ret is what
\* the native init answered (<<>> while it was never called), dirty says
\* that encode/decode history is in it, vals are the control values it
\* holds
NoNat ==
    [inits |-> 0, init_ret |-> <<>>, dirty |-> FALSE,
     vals |-> [f \in Fields |-> 0]]

NativeInits ==
    {"opus_encoder_init", "opus_decoder_init", "opus_repacketizer_init"}

\* the block after the constructor ran (init is called once or never) and
\* the native init, if called, answered ret; a successful encoder init
\* leaves the block in the application mode it was handed
NatAfterInit(calls, ret, mode) ==
    LET n == Cardinality({k \in 1..Len(calls) : calls[k] \in NativeInits})
        enc == \E k \in 1..Len(calls) : calls[k] = "opus_encoder_init"
    IN  [NoNat EXCEPT !.inits = n,
                      !.init_ret = IF n > 0 THEN <<ret>> ELSE <<>>,
                      !.vals["application"] =
                          IF enc /\ ret = OK THEN mode ELSE 0]

-----------------------------------------------------------------------------
(* Threads *)

\* no control request: cap is the llinterface control function called,
\* member the request enum member handed to it, arg what else is passed
NoReq == [cap |-> "none", member |-> <<"", "">>, arg |-> "none"]

\* a caller: req is the control request of its call, ncalls the number of
\* native primitive or control invocations its call has made
IdleThread ==
    [pc |-> "idle", op |-> "none", inst |-> 0, pcm_len |-> 0, data |-> FALSE,
     dur |-> <<>>, fec |-> FALSE, frame_size |-> 0, field |-> "", val |-> NoVal,
     req |-> NoReq, ncalls |-> 0, res |-> 0, out |-> NoVal, err |-> NoError, status |-> "none"]

Live(i, kind) == inst[i].status = "live" /\ inst[i].kind = kind

\* the thread's call returns normally with value v
Returned(r, v) == [r EXCEPT !.pc = "done", !.status = "returned", !.out = v]

\* the thread's call raises e
Raised(r, e) == [r EXCEPT !.pc = "done", !.status = "raised", !.err = e]

Init ==
    /\ inst = [i \in Insts |-> NoInst]
    /\ nat = [i \in Insts |-> NoNat]
    /\ lock = [i \in Insts |-> 0]
    /\ buf = [i \in Insts |-> NewBuf(0)]
    /\ th = [t \in Threads |-> IdleThread]

\* OpusEncoder(frequency, channels, application) into slot i; status is
\* what the native init answers if it is reached.
NewEncoder(i, frequency, channels, application, status) ==
    LET e == BaseOpusEncoder_init(frequency, channels, application, status)
    IN  /\ inst[i].status = "none"
        /\ inst' = [inst EXCEPT ![i] = e]
        /\ nat' = [nat EXCEPT ![i] = NatAfterInit(e.calls, status, e.mode)]
        /\ buf' = IF e.status = "live"
                  THEN [buf EXCEPT ![i] = NewBuf(PAYLOAD_BUFFER_SIZE)]
                  ELSE buf
        /\ UNCHANGED <<lock, th>>

\* OpusDecoder(frequency, channels) into slot i
NewDecoder(i, frequency, channels, status) ==
    LET d == BaseOpusDecoder_init(frequency, channels, status)
    IN  /\ inst[i].status = "none"
        /\ inst' = [inst EXCEPT ![i] = d]
        /\ nat' = [nat EXCEPT ![i] = NatAfterInit(d.calls, status, 0)]
        /\ buf' = IF d.status = "live"
                  THEN [buf EXCEPT ![i] = NewBuf(PCM_BUFFER_SAMPLES * channels)]
                  ELSE buf
        /\ UNCHANGED <<lock, th>>

\* OpusRepacketizer() into slot i; result is what the native init answers
NewRepacketizer(i, result) ==
    LET p == OpusRepacketizer_init(result)
    IN  /\ inst[i].status = "none"
        /\ inst' = [inst EXCEPT ![i] = p]
        /\ nat' = [nat EXCEPT ![i] = NatAfterInit(p.calls, result, 0)]
        /\ UNCHANGED <<lock, buf, th>>

-----------------------------------------------------------------------------
(* encode / decode / decode_plc_fec *)

\* variant: the lock is taken without waiting for its holder
LockFree_unguarded(i) == TRUE

\* variant: one lock shared by all instances
LockFree_shared(i) == \A j \in Insts : lock[j] = 0

\* the instance lock, `with self._buf_lock:` entered by thread t
LockFree(i) == lock[i] = 0

\* variant: the lock is released on the normal path only
WithExit_leak(i, raised) == IF raised THEN lock ELSE [lock EXCEPT ![i] = 0]

\* the lock after thread t left the with block of instance i, normally or
\* by an exception passing through it
WithExit(i, raised) == [lock EXCEPT ![i] = 0]

\* variant: the stereo path halves the length without looking at its parity
EncodeFrameSize_unchecked(channels, n) ==
    IF channels = 2
    THEN [err |-> NoError, frame_size |-> n \div 2]
    ELSE [err |-> NoError, frame_size |-> n]

\* _stereo_encode / _mono_encode (bound to self.encode by channel count):
\* the frame size handed to _do_encode for a pcm argument of length n
EncodeFrameSize(channels, n) ==
    IF channels = 2
    THEN IF n % 2 # 0
         THEN [err |-> ValueError("PCM data length", {}), frame_size |-> 0]
         ELSE [err |-> NoError, frame_size |-> n \div 2]
    ELSE [err |-> NoError, frame_size |-> n]

\* variant: the frame duration is taken as a number of samples
PlcFrameSize_unscaled(data, dur, fec, min_frame_samples) ==
    IF ~data \/ fec
    THEN IF dur = <<>>
         THEN [err |-> ValueError("frame_duration", {}), frame_size |-> 0]
         ELSE [err |-> NoError, frame_size |-> dur[1]]
    ELSE [err |-> NoError, frame_size |-> PCM_BUFFER_SAMPLES]

\* variant: the frame duration is asked for only when there is no payload
PlcFrameSize_payload_only(data, dur, fec, min_frame_samples) ==
    IF ~data
    THEN IF dur = <<>>
         THEN [err |-> ValueError("frame_duration", {}), frame_size |-> 0]
         ELSE [err |-> NoError, frame_size |-> dur[1] * min_frame_samples]
    ELSE [err |-> NoError, frame_size |-> PCM_BUFFER_SAMPLES]

\* decode_plc_fec, lines 173-183: the frame size for the native call;
\* dur is <<>> for frame_duration=None and <<d>> otherwise
PlcFrameSize(data, dur, fec, min_frame_samples) ==
    IF ~data \/ fec
    THEN IF dur = <<>>
         THEN [err |-> ValueError("frame_duration", {}), frame_size |-> 0]
         ELSE [err |-> NoError, frame_size |-> dur[1] * min_frame_samples]
    ELSE [err |-> NoError, frame_size |-> PCM_BUFFER_SAMPLES]

\* variant: decode slices the buffer by the per-channel sample count
DecodeReturn_per_channel(b, res, channels) == Slice(b, res)

\* what each operation returns from the scratch buffer, given the native
\* result res: encoder.py line 150, decoder.py lines 150 and 196
EncodeReturn(b, res) == Slice(b, res)
DecodeReturn(b, res, channels) == Slice(b, res * channels)
DecodePlcFecReturn(b, res, channels) == Slice(b, res)

\* results the native encode can answer: an error or the bytes written
EncodeResults(errors) == errors \cup (1..MaxPayloadBytes)

\* results the native decode can answer for the call of thread record r:
\* an error, or the samples per channel: the frame size asked for when it
\* conceals or recovers a frame, else the packet's duration, a multiple of
\* 2.5 ms at the rate the block was initialised with
DecodeResults(r, errors) ==
    errors \cup
    (IF ~r.data \/ r.fec
     THEN {r.frame_size}
     ELSE {n \in {k * (inst[r.inst].freq \div MIN_FRAME_DURATION_DIV) :
                    k \in 1..MaxPacketFrames} : n <= r.frame_size})

CallEncode(t, i, n) ==
    LET fs == EncodeFrameSize(inst[i].channels, n)
        r == [IdleThread EXCEPT !.op = "encode", !.inst = i, !.data = TRUE,
                                !.pcm_len = n, !.frame_size = fs.frame_size]
    IN  /\ th[t].pc = "idle"
        /\ Live(i, "encoder")
        /\ th' = [th EXCEPT ![t] = IF fs.err # NoError
                                   THEN Raised(r, fs.err)
                                   ELSE [r EXCEPT !.pc = "lock"]]
        /\ UNCHANGED <<inst, nat, lock, buf>>

\* variant: decode asks the native decode for the FEC data of the packet
CallDecode_fec(t, i) ==
    /\ th[t].pc = "idle"
    /\ Live(i, "decoder")
    /\ th' = [th EXCEPT ![t] =
                [IdleThread EXCEPT !.pc = "lock", !.op = "decode",
                                   !.inst = i, !.data = TRUE, !.fec = TRUE,
                                   !.frame_size = PCM_BUFFER_SAMPLES]]
    /\ UNCHANGED <<inst, nat, lock, buf>>

\* decode(data): no check; the native call is made with the whole buffer
\* as frame size and decode_fec = 0 (decoder.py lines 141-149)
CallDecode(t, i) ==
    /\ th[t].pc = "idle"
    /\ Live(i, "decoder")
    /\ th' = [th EXCEPT ![t] =
                [IdleThread EXCEPT !.pc = "lock", !.op = "decode",
                                   !.inst = i, !.data = TRUE,
                                   !.frame_size = PCM_BUFFER_SAMPLES]]
    /\ UNCHANGED <<inst, nat, lock, buf>>

CallDecodePlcFec(t, i, data, dur, fec) ==
    LET fs == PlcFrameSize(data, dur, fec, inst[i].min_frame_samples)
        r == [IdleThread EXCEPT !.op = "decode_plc_fec", !.inst = i,
                                !.data = data, !.dur = dur, !.fec = fec,
                                !.frame_size = fs.frame_size]
    IN  /\ th[t].pc = "idle"
        /\ Live(i, "decoder")
        /\ th' = [th EXCEPT ![t] = IF fs.err # NoError
                                   THEN Raised(r, fs.err)
                                   ELSE [r EXCEPT !.pc = "lock"]]
        /\ UNCHANGED <<inst, nat, lock, buf>>

\* variant: the with block is entered whoever holds the lock
Acquire_nowait(t) ==
    /\ th[t].pc = "lock"
    /\ lock' = [lock EXCEPT ![th[t].inst] = t]
    /\ th' = [th EXCEPT ![t].pc = "native"]
    /\ UNCHANGED <<inst, nat, buf>>

\* `with self._buf_lock:` entered
Acquire(t) ==
    /\ th[t].pc = "lock"
    /\ LockFree(th[t].inst)
    /\ lock' = [lock EXCEPT ![th[t].inst] = t]
    /\ th' = [th EXCEPT ![t].pc = "native"]
    /\ UNCHANGED <<inst, nat, buf>>

\* variant: the lock is dropped as soon as the native call has returned
ReleasedBeforeRead(i) == [lock EXCEPT ![i] = 0]

\* the lock while the slice is read: the read is inside the with block
\* (encoder.py line 150, decoder.py lines 150 and 196), so still held
HeldForRead(i) == lock

\* variant: the sign of the native result is not looked at
NativeReturn_unchecked(t, res, cells) ==
    /\ th' = [th EXCEPT ![t].pc = "read", ![t].res = res,
                         ![t].ncalls = @ + 1]
    /\ buf' = [buf EXCEPT ![th[t].inst] =
                 NativeWrite(buf[th[t].inst], t, cells)]
    /\ nat' = [nat EXCEPT ![th[t].inst].dirty = TRUE]
    /\ lock' = HeldForRead(th[t].inst)
    /\ UNCHANGED inst

\* the native primitive answers res to thread t, having written `cells`
\* cells of the scratch buffer; a negative res is raised by llinterface
\* (lines 216-217, 363-364) and leaves the with block
NativeReturn(t, res, cells) ==
    LET i == th[t].inst
    IN  IF res < 0
        THEN /\ th' = [th EXCEPT ![t] =
                        Raised([th[t] EXCEPT !.res = res, !.ncalls = @ + 1],
                               OpusError(res))]
             /\ lock' = WithExit(i, TRUE)
             /\ UNCHANGED <<inst, nat, buf>>
        ELSE /\ th' = [th EXCEPT ![t].pc = "read", ![t].res = res,
                                  ![t].ncalls = @ + 1]
             /\ buf' = [buf EXCEPT ![i] = NativeWrite(buf[i], t, cells)]
             /\ nat' = [nat EXCEPT ![i].dirty = TRUE]
             /\ lock' = HeldForRead(i)
             /\ UNCHANGED inst

NativeEncode(t, res) ==
    /\ th[t].pc = "native"
    /\ th[t].op = "encode"
    /\ NativeReturn(t, res, res)

NativeDecode(t, res) ==
    /\ th[t].pc = "native"
    /\ th[t].op \in {"decode", "decode_plc_fec"}
    /\ NativeReturn(t, res, res * inst[th[t].inst].channels)

\* the slice of the scratch buffer is copied out and the with block left
ReadBuf(t) ==
    LET i == th[t].inst
        v == CASE th[t].op = "encode" -> EncodeReturn(buf[i], th[t].res)
               [] th[t].op = "decode" ->
                     DecodeReturn(buf[i], th[t].res, inst[i].channels)
               [] OTHER ->
                     DecodePlcFecReturn(buf[i], th[t].res, inst[i].channels)
    IN  /\ th[t].pc = "read"
        /\ th' = [th EXCEPT ![t] = Returned(th[t], v)]
        /\ lock' = WithExit(i, FALSE)
        /\ UNCHANGED <<inst, nat, buf>>

\* the caller has its result or exception and is free to call again
Return(t) ==
    /\ th[t].pc = "done"
    /\ th' = [th EXCEPT ![t] = IdleThread]
    /\ UNCHANGED <<inst, nat, lock, buf>>

-----------------------------------------------------------------------------
(* Control protocol: ctl.py over llinterface.encoder_ctl / decoder_ctl *)

\* The facade's accessors (encoder.py lines 160-512, decoder.py 206-254):
\* which properties exist, the kind of their value, and whether the
\* property has a getter and a setter.
Acc(role, name, vkind, get, set) ==
    [role |-> role, name |-> name, vkind |-> vkind, get |-> get, set |-> set]

Accessors ==
    { Acc("encoder", "final_range", "uint", TRUE, FALSE),
      Acc("encoder", "pitch", "int", TRUE, FALSE),
      Acc("encoder", "bandwidth", "int", TRUE, TRUE),
      Acc("encoder", "complexity", "int", TRUE, TRUE),
      Acc("encoder", "bitrate", "int", TRUE, TRUE),
      Acc("encoder", "vbr", "bool", TRUE, TRUE),
      Acc("encoder", "vbr_constraint", "bool", TRUE, TRUE),
      Acc("encoder", "force_channels", "int", TRUE, TRUE),
      Acc("encoder", "max_bandwidth", "int", TRUE, TRUE),
      Acc("encoder", "signal", "int", TRUE, TRUE),
      Acc("encoder", "application", "mode", TRUE, TRUE),
      Acc("encoder", "sample_rate", "int", TRUE, FALSE),
      Acc("encoder", "lookahead", "int", TRUE, FALSE),
      Acc("encoder", "inband_fec", "bool", TRUE, TRUE),
      Acc("encoder", "packet_loss_perc", "int", TRUE, TRUE),
      Acc("encoder", "dtx", "bool", TRUE, TRUE),
      Acc("encoder", "lsb_depth", "int", TRUE, TRUE),
      Acc("encoder", "last_packet_duration", "int", TRUE, FALSE),
      Acc("encoder", "expert_frame_duration", "int", TRUE, TRUE),
      Acc("encoder", "prediction_disabled", "bool", TRUE, TRUE),
      Acc("decoder", "final_range", "uint", TRUE, FALSE),
      Acc("decoder", "pitch", "int", TRUE, FALSE),
      Acc("decoder", "bandwidth", "int", TRUE, FALSE),
      Acc("decoder", "gain", "int", TRUE, TRUE) }

\* ctl.EncoderControlRequest / DecoderControlRequest: the fields the enum
\* of the role has a GET_ member for.  The encoder's has none for
\* final_range, pitch and bandwidth.
GetRequests(role) ==
    IF role = "encoder"
    THEN {"complexity", "bitrate", "vbr", "vbr_constraint",
          "force_channels", "max_bandwidth", "signal", "application",
          "sample_rate", "lookahead", "inband_fec", "packet_loss_perc",
          "dtx", "lsb_depth", "last_packet_duration",
          "expert_frame_duration", "prediction_disabled"}
    ELSE {"final_range", "pitch", "bandwidth", "gain"}

\* the accessor of a role's property
Accessor(role, name) ==
    CHOOSE a \in Accessors : a.role = role /\ a.name = name

\* the values a caller passes to a setter of the given kind
SetValues(vkind) ==
    CASE vkind = "bool" -> {PyBool(FALSE), PyBool(TRUE)}
      [] vkind = "mode" -> {PyInt(c) : c \in _SUPPORTED_APPLICATIONS}
      [] OTHER -> {PyInt(n) : n \in 0..MaxCtlValue}

\* variant: the application setter also stores its value on the instance
FacadeAfterSet_stored(e, name, v) ==
    IF name = "application" THEN [e EXCEPT !.mode = v.i] ELSE e

\* the instance after a property setter ran: the setters only call ctl
\* and assign nothing on self (encoder.py lines 190-511)
FacadeAfterSet(e, name, v) == e

\* _set_bool: `1 if value else 0`; _set_int passes the value itself (the
\* application setter passes value.value)
SetArg(vkind, v) == IF vkind = "bool" THEN (IF v.b THEN 1 ELSE 0) ELSE v.i

\* _get_bool: `_get_int(...) != 0`; _get_int / _get_uint: the cell's value
GetValue(vkind, cell) == IF vkind = "bool" THEN PyBool(cell # 0) ELSE PyInt(cell)

\* variant: the native status is not looked at
llinterface_ctl_unchecked(status) == [err |-> NoError, ret |-> "None"]

\* llinterface.encoder_ctl / decoder_ctl (lines 275-278, 414-417): the
\* native status is raised when not OK; otherwise the function ends
\* without a return statement, so it returns None.
llinterface_ctl(status) ==
    [err |-> IF status # OK THEN OpusError(status) ELSE NoError,
     ret |-> "None"]

\* ctl._set_int (lines 199-201): result = fn(...); an error raised by fn
\* passes through; then `if result != OK: raise OpusError(result)`.
\* fn returned None, None != OK holds, and OpusError here is the IntEnum
\* of constants.py: OpusError(None) is a failed enum lookup, a ValueError
\* that carries no native status.
_set_int(c) ==
    IF c.err # NoError
    THEN c.err
    ELSE IF c.ret = "None" THEN ValueError("OpusError", {}) ELSE NoError

\* variant: the cell is returned whatever the control call did
_get_int_unchecked(c, native_value) ==
    [err |-> NoError, cell |-> native_value]

\* ctl._get_int / _get_uint (lines 216-218, 233-235): a fresh cell holding
\* 0, written by the native call when it answers OK; the cell's content is
\* returned unless fn raised
_get_int(c, native_value) ==
    [err |-> c.err, cell |-> IF c.err = NoError THEN native_value ELSE 0]

\* variant: the result of the control call is compared with OK, as
\* _set_int does
reset_state_checked(c) ==
    IF c.err # NoError THEN c.err ELSE ValueError("OpusError", {})

\* ctl.encoder_reset_state / decoder_reset_state (lines 662, 673): the
\* control call alone, its result not looked at
reset_state(c) == c.err

\* ctl.EncoderControlRequest / DecoderControlRequest: the fields the enum
\* of the role has a SET_ member for
SetRequests(role) ==
    IF role = "encoder"
    THEN {"complexity", "bitrate", "vbr", "vbr_constraint",
          "force_channels", "max_bandwidth", "bandwidth", "signal",
          "application", "inband_fec", "packet_loss_perc", "dtx",
          "lsb_depth", "expert_frame_duration", "prediction_disabled"}
    ELSE {"gain"}

\* the members of the role's request enum
ControlRequests(role) ==
    {<<"SET", n>> : n \in SetRequests(role)}
    \cup {<<"GET", n>> : n \in GetRequests(role)}
    \cup {<<"RESET_STATE", "">>}

\* variant: every ctl function goes through encoder_ctl
CtlCall_encoder(role, verb, name, arg) ==
    [cap |-> "encoder", member |-> <<verb, name>>, arg |-> arg]

\* the ctl function behind an accessor of the role's facade: the facade
\* of an encoder calls ctl.encoder_*, which hands encoder_ctl a member of
\* EncoderControlRequest, that of a decoder ctl.decoder_*, decoder_ctl and
\* DecoderControlRequest; arg is the value, the output cell or nothing
CtlCall(role, verb, name, arg) ==
    [cap |-> role, member |-> <<verb, name>>, arg |-> arg]

CallSet(t, i, name, v) ==
    /\ th[t].pc = "idle"
    /\ inst[i].status = "live"
    /\ \E a \in Accessors :
          /\ a.role = inst[i].kind /\ a.name = name /\ a.set
          /\ v \in SetValues(a.vkind)
    /\ th' = [th EXCEPT ![t] =
                [IdleThread EXCEPT !.pc = "ctl", !.op = "set", !.inst = i,
                                   !.field = name, !.val = v,
                                   !.req = CtlCall(inst[i].kind, "SET",
                                                   name, "value")]]
    /\ UNCHANGED <<inst, nat, lock, buf>>

\* a property is read: the ctl getter names its request, which raises
\* AttributeError when the role's enum lacks the member, and then makes
\* the native control call
CallGet(t, i, name) ==
    LET r == [IdleThread EXCEPT !.op = "get", !.inst = i, !.field = name]
    IN  /\ th[t].pc = "idle"
        /\ inst[i].status = "live"
        /\ \E a \in Accessors :
              a.role = inst[i].kind /\ a.name = name /\ a.get
        /\ th' = [th EXCEPT ![t] =
                    IF name \in GetRequests(inst[i].kind)
                    THEN [r EXCEPT !.pc = "ctl",
                                   !.req = CtlCall(inst[i].kind, "GET",
                                                   name, "cell")]
                    ELSE Raised(r, MissingMember(name))]
        /\ UNCHANGED <<inst, nat, lock, buf>>

\* variant: reset_state allocates and initialises the state anew
CallResetState_reinit(t, i) ==
    /\ th[t].pc = "idle"
    /\ (Live(i, "encoder") \/ Live(i, "decoder"))
    /\ th' = [th EXCEPT ![t] =
                [IdleThread EXCEPT !.pc = "ctl", !.op = "reset_state",
                                   !.inst = i,
                                   !.req = CtlCall(inst[i].kind,
                                              "RESET_STATE", "", "none")]]
    /\ nat' = [nat EXCEPT ![i].inits = 2]
    /\ buf' = [buf EXCEPT ![i] = NewBuf(buf[i].cap)]
    /\ UNCHANGED <<inst, lock>>

\* variant: reset_state is not entered while the instance lock is held
CallResetState_locked(t, i) ==
    /\ th[t].pc = "idle"
    /\ (Live(i, "encoder") \/ Live(i, "decoder"))
    /\ lock[i] = 0
    /\ th' = [th EXCEPT ![t] =
                [IdleThread EXCEPT !.pc = "ctl", !.op = "reset_state",
                                   !.inst = i,
                                   !.req = CtlCall(inst[i].kind,
                                              "RESET_STATE", "", "none")]]
    /\ UNCHANGED <<inst, nat, lock, buf>>

\* reset_state(), encoder.py lines 154-158, decoder.py lines 200-204
CallResetState(t, i) ==
    /\ th[t].pc = "idle"
    /\ (Live(i, "encoder") \/ Live(i, "decoder"))
    /\ th' = [th EXCEPT ![t] =
                [IdleThread EXCEPT !.pc = "ctl", !.op = "reset_state",
                                   !.inst = i,
                                   !.req = CtlCall(inst[i].kind,
                                              "RESET_STATE", "", "none")]]
    /\ UNCHANGED <<inst, nat, lock, buf>>

\* the native control call of thread t answers status; on OK a set has
\* stored its value in the block, a reset has cleared the coding history
NativeCtl(t, status) ==
    LET r == th[t]
        i == r.inst
        a == Accessor(inst[i].kind, r.field)
        c == llinterface_ctl(status)
        g == _get_int(c, nat[i].vals[r.field])
        r1 == [r EXCEPT !.res = status, !.ncalls = @ + 1]
    IN  /\ r.pc = "ctl"
        /\ CASE r.op = "set" ->
                  /\ inst' = [inst EXCEPT ![i] =
                                FacadeAfterSet(inst[i], r.field, r.val)]
                  /\ nat' = IF status = OK
                            THEN [nat EXCEPT ![i].vals[r.field] =
                                     SetArg(a.vkind, r.val)]
                            ELSE nat
                  /\ th' = [th EXCEPT ![t] =
                              IF _set_int(c) # NoError
                              THEN Raised(r1, _set_int(c))
                              ELSE Returned(r1, NoVal)]
             [] r.op = "get" ->
                  /\ inst' = inst
                  /\ nat' = nat
                  /\ th' = [th EXCEPT ![t] =
                              IF g.err # NoError
                              THEN Raised(r1, g.err)
                              ELSE Returned(r1, GetValue(a.vkind, g.cell))]
             [] OTHER ->
                  /\ inst' = inst
                  /\ nat' = IF status = OK
                            THEN [nat EXCEPT ![i].dirty = FALSE]
                            ELSE nat
                  /\ th' = [th EXCEPT ![t] =
                              IF reset_state(c) # NoError
                              THEN Raised(r1, reset_state(c))
                              ELSE Returned(r1, NoVal)]
        /\ UNCHANGED <<lock, buf>>

-----------------------------------------------------------------------------
(* Arguments callers pass, and the specifications *)

\* application arguments: [code, member]; member is FALSE for a member of
\* OpusApplicationType, whose value is a plain int
OpusApplicationType ==
    {[code |-> c, member |-> FALSE] : c \in _SUPPORTED_APPLICATIONS}

AppArgs ==
    {[code |-> c, member |-> m] :
        c \in _SUPPORTED_APPLICATIONS \cup {0}, m \in BOOLEAN}

FreqArgs == _SUPPORTED_FREQS \cup {44100}
ChannelArgs == {1, 2, 3}

\* the properties the single caller reads and assigns: an int and a bool
\* property of the encoder, the decoder's gain, and the properties that
\* have a getter or a setter only
SomeFields ==
    {"complexity", "vbr", "gain", "bandwidth", "final_range", "pitch",
     "sample_rate", "lookahead", "last_packet_duration", "application"}

\* everything a single caller may pass
AllArgs ==
    [pcm |-> 0..MaxPcmLen,
     plc |-> {[data |-> d, dur |-> u, fec |-> f] :
                d \in BOOLEAN, f \in BOOLEAN,
                u \in {<<>>} \cup
                      {<<x>> : x \in (1..MaxFrameDuration)
                                       \cup {LongFrameDuration}}},
     set |-> SetValues("int") \cup SetValues("bool")
                \cup SetValues("mode"),
     fields |-> SomeFields, get |-> SomeFields, errors |-> NativeErrors]

\* what the callers of the concurrent specification pass
FewArgs ==
    [pcm |-> {2},
     plc |-> {[data |-> FALSE, dur |-> <<1>>, fec |-> FALSE]},
     set |-> {PyInt(1)},
     fields |-> {"complexity", "gain"}, get |-> {"complexity", "gain"}, errors |-> {BAD_ARG}]

FewAppArgs ==
    {[code |-> APPLICATION_VOIP, member |-> TRUE],
     [code |-> APPLICATION_VOIP, member |-> FALSE]}

\* constructors run for the slots I with arguments from F, C and A
Construct(I, F, C, A) ==
    \E i \in I, s \in NativeStatuses :
        \/ \E f \in F, c \in C, a \in A : NewEncoder(i, f, c, a, s)
        \/ \E f \in F, c \in C : NewDecoder(i, f, c, s)

\* the threads T call the instances I with arguments from X
Operate(T, I, X) ==
    \E t \in T :
        \/ \E i \in I, n \in X.pcm : CallEncode(t, i, n)
        \/ \E i \in I : CallDecode(t, i)
        \/ \E i \in I, p \in X.plc :
              CallDecodePlcFec(t, i, p.data, p.dur, p.fec)
        \/ Acquire(t)
        \/ \E r \in EncodeResults(X.errors) : NativeEncode(t, r)
        \/ \E r \in DecodeResults(th[t], X.errors) : NativeDecode(t, r)
        \/ ReadBuf(t)
        \/ \E i \in I, f \in X.fields, v \in X.set : CallSet(t, i, f, v)
        \/ \E i \in I, f \in X.get : CallGet(t, i, f)
        \/ \E i \in I : CallResetState(t, i)
        \/ \E s \in {OK} \cup X.errors : NativeCtl(t, s)
        \/ Return(t)

\* the state after the constructor of instance e returned it in slot 1
InitWith(e, cap) ==
    /\ inst = [i \in Insts |-> IF i = 1 THEN e ELSE NoInst]
    /\ nat = [i \in Insts |->
                IF i = 1 THEN NatAfterInit(e.calls, OK, e.mode)
                ELSE NoNat]
    /\ lock = [i \in Insts |-> 0]
    /\ buf = [i \in Insts |-> NewBuf(IF i = 1 THEN cap ELSE 0)]
    /\ th = [t \in Threads |-> IdleThread]

\* Concurrent callers on one shared instance, an encoder or a decoder
\* constructed without error
InitLive ==
    \E c \in _SUPPORTED_CHANNELS :
        \/ InitWith(BaseOpusEncoder_init(48000, c,
                        [code |-> APPLICATION_VOIP, member |-> TRUE], OK),
                    PAYLOAD_BUFFER_SIZE)
        \/ InitWith(BaseOpusDecoder_init(48000, c, OK),
                    PCM_BUFFER_SAMPLES * c)

Next == Operate(Threads, {1}, FewArgs)

Spec == InitLive /\ [][Next]_vars

\* Concurrent callers of encode, decode and decode_plc_fec on one shared
\* instance
NextFair ==
    \E t \in Threads :
        \/ \E n \in FewArgs.pcm : CallEncode(t, 1, n)
        \/ CallDecode(t, 1)
        \/ \E p \in FewArgs.plc : CallDecodePlcFec(t, 1, p.data, p.dur, p.fec)
        \/ Acquire(t)
        \/ \E r \in EncodeResults(FewArgs.errors) : NativeEncode(t, r)
        \/ \E r \in DecodeResults(th[t], FewArgs.errors) : NativeDecode(t, r)
        \/ ReadBuf(t)
        \/ Return(t)

\* Every native call returns, a thread that leaves the native call goes on
\* to read the buffer, and a thread waiting for a lock that is free again
\* and again gets it in the end. Callers need not call again.
Fairness ==
    \A t \in Threads :
        /\ SF_vars(Acquire(t))
        /\ WF_vars(\E r \in EncodeResults(FewArgs.errors) : NativeEncode(t, r))
        /\ WF_vars(\E r \in DecodeResults(th[t], FewArgs.errors) :
                      NativeDecode(t, r))
        /\ WF_vars(ReadBuf(t))

SpecFair == InitLive /\ [][NextFair]_vars /\ Fairness

\* One caller, one instance, every argument
NextSeq ==
    \/ Construct({1}, _SUPPORTED_FREQS, _SUPPORTED_CHANNELS, FewAppArgs)
    \/ \E r \in RepacketizerInitResults : NewRepacketizer(1, r)
    \/ Operate({1}, {1}, AllArgs)

SpecSeq == Init /\ [][NextSeq]_vars

\* Construction alone, with supported and unsupported arguments
NextNew == Construct({1}, FreqArgs, ChannelArgs, AppArgs)

SpecNew == Init /\ [][NextNew]_vars

\* Two instances constructed without error and shared by the callers: an
\* encoder, and a second encoder or a decoder
InitTwo ==
    \E k1 \in {"encoder"}, k2 \in {"encoder", "decoder"} :
        LET e == BaseOpusEncoder_init(48000, 1,
                     [code |-> APPLICATION_VOIP, member |-> TRUE], OK)
            d == BaseOpusDecoder_init(48000, 1, OK)
            new(i) == IF (IF i = 1 THEN k1 ELSE k2) = "encoder" THEN e ELSE d
        IN  /\ inst = [i \in Insts |-> new(i)]
            /\ nat = [i \in Insts |-> 
                        NatAfterInit(new(i).calls, OK, new(i).mode)]
            /\ lock = [i \in Insts |-> 0]
            /\ buf = [i \in Insts |->
                        NewBuf(IF new(i).kind = "encoder"
                               THEN PAYLOAD_BUFFER_SIZE
                               ELSE PCM_BUFFER_SAMPLES)]
            /\ th = [t \in Threads |-> IdleThread]

NextTwo == Operate({1, 2}, Insts, FewArgs)

SpecTwo == InitTwo /\ [][NextTwo]_vars

\* An encoder in slot 1 and a decoder of the same rate and channel count
\* in slot 2, both constructed without error
InitPair ==
    \E f \in _SUPPORTED_FREQS, c \in _SUPPORTED_CHANNELS :
        LET e == BaseOpusEncoder_init(f, c,
                     [code |-> APPLICATION_VOIP, member |-> TRUE], OK)
            d == BaseOpusDecoder_init(f, c, OK)
        IN  /\ inst = [i \in Insts |-> IF i = 1 THEN e ELSE d]
            /\ nat = [i \in Insts |->
                        IF i = 1 THEN NatAfterInit(e.calls, OK, e.mode)
                        ELSE NatAfterInit(d.calls, OK, 0)]
            /\ lock = [i \in Insts |-> 0]
            /\ buf = [i \in Insts |->
                        NewBuf(IF i = 1 THEN PAYLOAD_BUFFER_SIZE
                               ELSE PCM_BUFFER_SAMPLES * c)]
            /\ th = [t \in Threads |-> IdleThread]

\* pcm arguments of the shape the encoder in slot i expects: whole frames
\* of k x 2.5 ms for each of its channels
FramePcmLens(i) ==
    {k * (inst[i].freq \div MIN_FRAME_DURATION_DIV) * inst[i].channels :
        k \in 1..MaxPacketFrames}

\* Thread 1 encodes frames with the encoder and keeps each payload until
\* thread 2 has decoded it with the decoder
NextPair ==
    \/ \E n \in FramePcmLens(1) : CallEncode(1, 1, n)
    \/ th[1].op = "encode" /\ Acquire(1)
    \/ \E r \in EncodeResults(NativeErrors) : NativeEncode(1, r)
    \/ th[1].op = "encode" /\ ReadBuf(1)
    \/ th[2].pc = "idle" /\ Return(1)
    \/ th[1].pc = "done" /\ th[1].status = "returned" /\ CallDecode(2, 2)
    \/ th[2].op = "decode" /\ Acquire(2)
    \/ \E r \in DecodeResults(th[2], NativeErrors) : NativeDecode(2, r)
    \/ th[2].op = "decode" /\ ReadBuf(2)
    \/ th[1].pc = "done" /\ Return(2)

SpecPair == InitPair /\ [][NextPair]_vars

-----------------------------------------------------------------------------
(* Construction: C1, C7, C8 (checked under SpecNew) *)

Constructed(i) == inst[i].status # "none"

SupportedArgs(i) ==
    /\ inst[i].freq \in _SUPPORTED_FREQS
    /\ inst[i].channels \in _SUPPORTED_CHANNELS
    /\ inst[i].kind = "encoder" => inst[i].mode \in _SUPPORTED_APPLICATIONS

\* the first unsupported argument of the constructor call of slot i, in the
\* order the constructor checks them, and the values supported for it
Offending(i) ==
    IF inst[i].freq \notin _SUPPORTED_FREQS
    THEN [field |-> "frequency", accepted |-> _SUPPORTED_FREQS]
    ELSE IF inst[i].channels \notin _SUPPORTED_CHANNELS
    THEN [field |-> "channels", accepted |-> _SUPPORTED_CHANNELS]
    ELSE [field |-> "coding mode", accepted |-> _SUPPORTED_APPLICATIONS]

\* C1: an Encoder constructed with a supported rate, channel count and
\* application mode is usable unless the native init reported a failure:
\* the only error its constructor raises is the native init's status.
C1_EncoderConstructionSucceeds ==
    \A i \in Insts :
        (Constructed(i) /\ inst[i].kind = "encoder" /\ SupportedArgs(i)
            /\ inst[i].status = "failed")
        => inst[i].err.etype = "OpusError"

\* C7 as stated: construction with an unsupported rate, channel count or
\* application mode raises a ValueError naming the offending field and the
\* set of values accepted for it.
C7_ErrorNamesFieldAndAcceptedSet ==
    \A i \in Insts :
        (Constructed(i) /\ ~SupportedArgs(i))
        => /\ inst[i].status = "failed"
           /\ inst[i].err.etype = "ValueError"
           /\ inst[i].err.field = Offending(i).field
           /\ inst[i].err.accepted = Offending(i).accepted

\* C7 amended: the ValueError names the offending field; it lists the
\* accepted values for the rate and the channel count, and none for the
\* application mode.
C7_ErrorNamesField ==
    \A i \in Insts :
        (Constructed(i) /\ ~SupportedArgs(i))
        => /\ inst[i].status = "failed"
           /\ inst[i].err.etype = "ValueError"
           /\ inst[i].err.field = Offending(i).field
           /\ inst[i].err.accepted =
                 IF Offending(i).field = "coding mode"
                 THEN {}
                 ELSE Offending(i).accepted

C7_Witness ==
    \E i \in Insts :
        /\ inst[i].kind = "encoder"
        /\ inst[i].status = "failed"
        /\ inst[i].channels \notin _SUPPORTED_CHANNELS
        /\ inst[i].freq \in _SUPPORTED_FREQS
        /\ inst[i].err.field = "channels"

\* C8: when construction fails validation, no native size query, no
\* allocation and no native init was made for the instance.
C8_ChecksBeforeAllocation ==
    \A i \in Insts :
        (Constructed(i) /\ ~SupportedArgs(i))
        => inst[i].calls = <<>> /\ nat[i].inits = 0

C8_Witness ==
    \E i \in Insts :
        /\ inst[i].kind = "decoder"
        /\ inst[i].status = "failed"
        /\ inst[i].err.etype = "ValueError"
        /\ inst[i].calls = <<>>

-----------------------------------------------------------------------------
(* Control protocol: C2, C9 (checked under SpecSeq) *)

Done(t, op) == th[t].pc = "done" /\ th[t].op = op

\* C2: when the native control call accepts the value of a set with
\* status OK the setter returns normally, and a getter whose native call
\* (made for the fields that have a get request) answers OK returns the
\* value the block holds for the field, which is the value set last.
C2_SetThenGet ==
    \A t \in Threads :
        /\ (Done(t, "set") /\ th[t].res = OK) => th[t].status = "returned"
        /\ (Done(t, "get") /\ th[t].res = OK
              /\ th[t].field \in GetRequests(inst[th[t].inst].kind))
              => /\ th[t].status = "returned"
                 /\ th[t].out =
                       GetValue(Accessor(inst[th[t].inst].kind,
                                         th[t].field).vkind,
                                nat[th[t].inst].vals[th[t].field])

\* C9: a control set whose native status is not OK raises an error that
\* carries that status and its native error text; it does not return.
C9_FailedSetRaises ==
    \A t \in Threads :
        (Done(t, "set") /\ th[t].res # OK)
        => /\ th[t].status = "raised"
           /\ th[t].err.etype = "OpusError"
           /\ th[t].err.has_errno
           /\ th[t].err.errno = th[t].res
           /\ th[t].err.text = strerror(th[t].res)

C9_Witness ==
    \E t \in Threads :
        /\ Done(t, "set")
        /\ th[t].field = "complexity"
        /\ th[t].res = BAD_ARG
        /\ th[t].status = "raised"

-----------------------------------------------------------------------------
(* decode_plc_fec: C10 (checked under SpecSeq) *)

\* C10: decode_plc_fec called with a frame duration and no payload returns
\* (samples per channel the native decode reported) x channels elements.
C10_ConcealmentFrameLength ==
    \A t \in Threads :
        (Done(t, "decode_plc_fec") /\ ~th[t].data /\ th[t].dur # <<>>
            /\ th[t].status = "returned")
        => th[t].out.i = th[t].res * inst[th[t].inst].channels

-----------------------------------------------------------------------------
(* Locking: C3, C4, C5, C6 (checked under Spec) *)

\* thread t is inside the native encode / decode primitive of instance i,
\* or reading the scratch buffer it wrote
InPrimitive(t, i) == th[t].inst = i /\ th[t].pc \in {"native", "read"}

\* thread t is inside a native call that mutates the state block of i
Mutating(t, i) ==
    /\ th[t].inst = i
    /\ \/ th[t].pc = "native"
       \/ th[t].pc = "ctl" /\ th[t].op \in {"set", "reset_state"}

\* C3: at most one thread is inside the native encode or decode primitive
\* of an instance, and that thread holds the instance lock for the whole
\* native call and the read of the scratch buffer.
C3_OneThreadInPrimitive ==
    \A i \in Insts :
        /\ Cardinality({t \in Threads : InPrimitive(t, i)}) <= 1
        /\ \A t \in Threads : InPrimitive(t, i) => lock[i] = t

C3_Witness ==
    \E t, u \in Threads :
        /\ t # u
        /\ th[t].inst = th[u].inst
        /\ th[t].pc = "native"
        /\ th[u].pc = "lock"
        /\ th[t].op = "decode_plc_fec"

\* C4: every encode call that returns hands back exactly the bytes its own
\* native invocation wrote: the first bytesWritten bytes, all written by
\* this call.
C4_EncodeReturnsOwnBytes ==
    \A t \in Threads :
        (Done(t, "encode") /\ th[t].status = "returned")
        => /\ th[t].out.t = "buf"
           /\ th[t].out.by = t
           /\ th[t].out.i = th[t].res
           /\ ~th[t].out.stale

\* an encode call of t has returned while the call of another thread has
\* since overwritten the shared payload buffer
C4_Witness ==
    \E t, u \in Threads :
        /\ t # u
        /\ Done(t, "encode") /\ th[t].status = "returned"
        /\ th[u].op = "encode" /\ th[u].pc = "read"
        /\ th[u].inst = th[t].inst
        /\ buf[th[t].inst].by = u

\* C5 as stated: no two threads are at once inside native calls that
\* mutate the same state block, the mutating calls being encode, decode,
\* decode_plc_fec, any control set and reset_state.
C5_NoConcurrentMutation ==
    \A i \in Insts :
        Cardinality({t \in Threads : Mutating(t, i)}) <= 1

\* C5 amended: of the threads that are at once inside mutating native
\* calls on one state block at most one is inside encode, decode or
\* decode_plc_fec; control sets and reset_state take no lock.
C5_NoConcurrentCodecMutation ==
    \A i \in Insts : \A t, u \in Threads :
        (t # u /\ Mutating(t, i) /\ Mutating(u, i))
        => (th[t].pc = "ctl" \/ th[u].pc = "ctl")

C5_Witness ==
    \E t, u \in Threads :
        /\ t # u
        /\ th[t].inst = th[u].inst
        /\ th[t].pc = "native" /\ th[t].op = "encode"
        /\ th[u].pc = "ctl" /\ th[u].op = "set"

\* C6: the lock is released on every exit path of encode, decode and
\* decode_plc_fec: a lock is only ever held by a thread that is inside
\* the with block, never by one whose call has returned or raised.
C6_LockReleasedOnExit ==
    \A i \in Insts :
        lock[i] # 0 => (lock[i] \in Threads /\ InPrimitive(lock[i], i))

\* a call has raised the native error, and another thread has since
\* acquired the lock of the same instance
C6_Witness ==
    \E t, u \in Threads :
        /\ t # u
        /\ th[t].pc = "done" /\ th[t].status = "raised"
        /\ th[t].op \in {"encode", "decode", "decode_plc_fec"}
        /\ th[t].err.etype = "OpusError"
        /\ th[u].inst = th[t].inst
        /\ th[u].pc = "native"
        /\ lock[th[t].inst] = u

-----------------------------------------------------------------------------
(* Argument checks of the codec methods: C11, C12 (checked under SpecSeq) *)

\* thread t is at or past the lock of its codec call
PastChecks(t) == th[t].pc \in {"lock", "native", "read"}

\* the step is thread t making a new call
Calls(t) == th[t].pc = "idle" /\ th'[t].pc # "idle"

\* the call of thread t needs a frame duration and has none
DurationMissing(r) ==
    r.op = "decode_plc_fec" /\ r.dur = <<>> /\ (~r.data \/ r.fec)

\* C11: decode_plc_fec without a frame duration, when there is no payload
\* or FEC is asked for, raises a ValueError in the step of the call itself:
\* the thread never waits for or takes the lock or reaches the native
\* decode, and state block, scratch buffer and lock are left as they were.
C11_MissingDurationRaisesFirst ==
    [][\A t \in Threads :
          /\ DurationMissing(th'[t]) => ~PastChecks(t)'
          /\ (Calls(t) /\ DurationMissing(th'[t]))
                => /\ th'[t].pc = "done"
                   /\ th'[t].status = "raised"
                   /\ th'[t].err.etype = "ValueError"
                   /\ UNCHANGED <<inst, nat, buf, lock>>]_vars

C11_Witness ==
    \E t \in Threads :
        /\ Done(t, "decode_plc_fec")
        /\ th[t].data /\ th[t].fec /\ th[t].dur = <<>>
        /\ th[t].status = "raised"

\* the call of thread t is encode on a stereo encoder with an odd length
OddStereo(r) ==
    r.op = "encode" /\ inst[r.inst].channels = 2 /\ r.pcm_len % 2 = 1

\* C12: encode on a stereo encoder with an odd sample count raises a
\* ValueError in the step of the call (no lock, no native call, nothing
\* changed); a call that goes on hands the native encode half the count
\* on a stereo encoder and the count itself on a mono one.
C12_EncodeFrameSize ==
    [][\A t \in Threads :
          /\ OddStereo(th'[t]) => ~PastChecks(t)'
          /\ (Calls(t) /\ OddStereo(th'[t]))
                => /\ th'[t].pc = "done"
                   /\ th'[t].status = "raised"
                   /\ th'[t].err.etype = "ValueError"
                   /\ UNCHANGED <<inst, nat, buf, lock>>
          /\ (th'[t].op = "encode" /\ PastChecks(t)')
                => th'[t].frame_size =
                      IF inst[th'[t].inst].channels = 2
                      THEN th'[t].pcm_len \div 2
                      ELSE th'[t].pcm_len]_vars

C12_Witness ==
    \E t \in Threads :
        /\ th[t].op = "encode" /\ th[t].pc = "native"
        /\ inst[th[t].inst].channels = 2
        /\ th[t].pcm_len = 2 /\ th[t].frame_size = 1

-----------------------------------------------------------------------------
(* Round trip: C13 (checked under SpecPair) *)

\* C13: thread 1 has encoded a frame of whole 2.5 ms units per channel
\* and thread 2 decodes the payload with a decoder of the same rate and
\* channel count.  Neither call raises unless the native primitive
\* reported an error, and when the native decode reports the samples per
\* channel the native encode was given, the decoded frame has as many
\* elements as the frame that was encoded.
C13_RoundTripLength ==
    /\ \A t \in Threads :
          (th[t].pc = "done" /\ th[t].status = "raised")
          => (th[t].err.etype = "OpusError" /\ th[t].res < 0)
    /\ (Done(1, "encode") /\ Done(2, "decode")
          /\ th[2].res = th[1].frame_size)
       => /\ th[1].status = "returned"
          /\ th[2].status = "returned"
          /\ th[2].out.t = "buf"
          /\ th[2].out.i = th[1].pcm_len
          /\ ~th[2].out.stale

C13_Witness ==
    /\ Done(1, "encode") /\ Done(2, "decode")
    /\ inst[1].channels = 2 /\ inst[2].channels = 2
    /\ th[2].res = th[1].frame_size
    /\ th[2].status = "returned"

-----------------------------------------------------------------------------
(* Results of the codec methods: C14, C15 (checked under SpecSeq) *)

\* C14: decode hands the native decode the FEC flag 0 and the whole PCM
\* buffer as frame size, and returns the first res x channels elements of
\* the PCM buffer, res being the samples per channel the native call
\* reported, all of them written by that call.
C14_DecodeReturnsAllChannels ==
    \A t \in Threads :
        /\ (th[t].op = "decode" /\ th[t].pc \in {"lock", "native", "read"})
              => (~th[t].fec /\ th[t].data
                    /\ th[t].frame_size = PCM_BUFFER_SAMPLES)
        /\ (Done(t, "decode") /\ th[t].status = "returned")
              => /\ th[t].out.t = "buf"
                 /\ th[t].out.i = th[t].res * inst[th[t].inst].channels
                 /\ th[t].out.by = t
                 /\ ~th[t].out.stale

C14_Witness ==
    \E t \in Threads :
        /\ Done(t, "decode") /\ th[t].status = "returned"
        /\ inst[th[t].inst].channels = 2
        /\ th[t].res > 0
        /\ th[t].out.i = 2 * th[t].res

CodecOps == {"encode", "decode", "decode_plc_fec"}

\* C15: a negative result of the native encode or decode makes the call
\* raise an OpusError that carries exactly that code, and the call hands
\* no payload or PCM frame to its caller.
C15_NativeErrorRaised ==
    \A t \in Threads :
        (th[t].pc = "done" /\ th[t].op \in CodecOps /\ th[t].res < 0)
        => /\ th[t].status = "raised"
           /\ th[t].err.etype = "OpusError"
           /\ th[t].err.has_errno
           /\ th[t].err.errno = th[t].res
           /\ th[t].out = NoVal

C15_Witness ==
    \E t \in Threads :
        /\ Done(t, "decode")
        /\ th[t].status = "raised"
        /\ th[t].res = INVALID_PACKET
        /\ th[t].err.errno = INVALID_PACKET

-----------------------------------------------------------------------------
(* Independence of instances: C16 (checked under SpecTwo) *)

\* the instances the step of thread t is about
ActsOn(t) == {th[t].inst, th'[t].inst}

\* C16: a thread waiting for the lock of an instance can take it whenever
\* that lock is free, whoever holds the locks of other instances; and a
\* step of a call on one instance leaves the state block, the scratch
\* buffer, the lock and the parameters of every other instance as they
\* were.
C16_InstancesIndependent ==
    /\ [](\A t \in Threads :
            (th[t].pc = "lock" /\ lock[th[t].inst] = 0)
            => ENABLED Acquire(t))
    /\ [][\A t \in Threads :
            th'[t] # th[t]
            => \A j \in Insts \ ActsOn(t) :
                  /\ nat'[j] = nat[j]
                  /\ buf'[j] = buf[j]
                  /\ lock'[j] = lock[j]
                  /\ inst'[j] = inst[j]]_vars

\* two threads are inside the native primitives of two instances at once
C16_Witness ==
    \E t, u \in Threads :
        /\ th[t].pc = "native" /\ th[u].pc = "native"
        /\ th[t].inst # th[u].inst
        /\ lock[th[t].inst] = t /\ lock[th[u].inst] = u

-----------------------------------------------------------------------------
(* Control calls and the lock: C17 (checked under Spec) *)

CtlOps == {"get", "set", "reset_state"}

\* C17: a getter, a setter or reset_state never waits for, takes or holds
\* the instance lock: whatever the lock's state, an idle thread can enter
\* any of them on a live instance and a thread inside one can complete its
\* native control call.
C17_ControlNotLocked ==
    \A t \in Threads :
        /\ th[t].op \in CtlOps
              => /\ th[t].pc \in {"ctl", "done"}
                 /\ \A i \in Insts : lock[i] # t
        /\ th[t].pc = "ctl" => ENABLED NativeCtl(t, OK)
        /\ th[t].pc = "idle"
              => \A i \in Insts :
                    inst[i].status = "live"
                    => /\ ENABLED CallResetState(t, i)
                       /\ ENABLED (\E f \in Fields : CallGet(t, i, f))
                       /\ ENABLED (\E f \in Fields, v \in SetValues("int") :
                                      CallSet(t, i, f, v))

\* a getter has returned while another thread is inside the native
\* primitive of the same instance, holding its lock
C17_Witness ==
    \E t, u \in Threads :
        /\ t # u
        /\ Done(u, "get") /\ th[u].status = "returned"
        /\ th[t].pc = "native" /\ th[t].inst = th[u].inst
        /\ lock[th[t].inst] = t

-----------------------------------------------------------------------------
(* Failed native init: C18 (checked under SpecSeq) *)

\* the native init of the block of slot i was called and reported failure:
\* a non-OK status, or no handle for a repacketizer
InitFailed(i) ==
    /\ nat[i].inits > 0
    /\ IF inst[i].kind = "repacketizer"
       THEN nat[i].init_ret = <<"None">>
       ELSE nat[i].init_ret # <<OK>>

\* C18: when the native init reports failure the constructor raises an
\* OpusError, which for an encoder or decoder carries the native status,
\* and no call is ever made on the instance: every call a thread is in is
\* on an instance whose constructor returned.
C18_FailedInitNeverExposed ==
    /\ \A i \in Insts :
          InitFailed(i)
          => /\ inst[i].status = "failed"
             /\ inst[i].err.etype = "OpusError"
             /\ inst[i].kind # "repacketizer"
                   => inst[i].err.errno = nat[i].init_ret[1]
    /\ \A t \in Threads :
          th[t].inst # 0
          => (inst[th[t].inst].status = "live" /\ ~InitFailed(th[t].inst))

C18_Witness ==
    \E i \in Insts :
        /\ inst[i].kind = "decoder"
        /\ nat[i].init_ret = <<BAD_ARG>>
        /\ inst[i].status = "failed"
        /\ inst[i].err.errno = BAD_ARG

-----------------------------------------------------------------------------
(* reset_state: C19 (checked under SpecSeq) *)

\* the step is a step of a reset_state call of thread t
ResetStep(t) ==
    th'[t] # th[t] /\ "reset_state" \in {th[t].op, th'[t].op}

\* C19: reset_state works in place.  Its call is one control request and
\* never takes the lock, and no step of it changes the parameters or the
\* constructor's calls of any instance, the scratch buffers or the locks,
\* nor makes or repeats a native init.
C19_ResetInPlace ==
    [][\A t \in Threads :
          /\ th'[t].op = "reset_state" => th'[t].pc \in {"ctl", "done"}
          /\ ResetStep(t)
                => /\ UNCHANGED <<inst, buf, lock>>
                   /\ \A i \in Insts :
                         /\ nat'[i].inits = nat[i].inits
                         /\ nat'[i].init_ret = nat[i].init_ret]_vars

\* a reset has returned on a block that had coding history, and the
\* scratch buffer still holds what the last native call wrote
C19_Witness ==
    \E t \in Threads :
        /\ Done(t, "reset_state") /\ th[t].status = "returned"
        /\ ~nat[th[t].inst].dirty
        /\ buf[th[t].inst].n > 0
        /\ nat[th[t].inst].inits = 1

-----------------------------------------------------------------------------
(* Accessors: C20 (checked under SpecSeq) *)

\* C20: the calls a caller can make on the properties are those of the
\* list: on an encoder sample_rate, lookahead and last_packet_duration
\* are only read and bandwidth is only assigned; on a decoder final_range,
\* pitch and bandwidth are only read (gain is read and assigned).
C20_AccessorAvailability ==
    \A t \in Threads :
        th[t].op \in {"get", "set"}
        => /\ (inst[th[t].inst].kind = "encoder"
                 /\ th[t].field \in
                       {"sample_rate", "lookahead", "last_packet_duration"})
              => th[t].op = "get"
           /\ (inst[th[t].inst].kind = "encoder"
                 /\ th[t].field = "bandwidth")
              => th[t].op = "set"
           /\ (inst[th[t].inst].kind = "decoder"
                 /\ th[t].field \in {"final_range", "pitch", "bandwidth"})
              => th[t].op = "get"

-----------------------------------------------------------------------------
(* Application mode: C21 (checked under SpecSeq) *)

\* the application mode in force in the native block of encoder i
NativeMode(i) == nat[i].vals["application"]

\* C21 as stated: whatever is done with a constructed encoder, its
\* application mode is the one passed to its constructor.
C21_ApplicationFixed ==
    \A i \in Insts :
        Live(i, "encoder") => NativeMode(i) = inst[i].mode

\* C21 amended: the application mode the facade stored at construction
\* never changes, whatever is done with the encoder; the mode in force in
\* the native block changes only when the native control call of an
\* application set answers OK, and then to the value set.
C21_StoredModeFixed ==
    [][\A i \in Insts :
          Live(i, "encoder")
          => /\ inst'[i].mode = inst[i].mode
             /\ NativeMode(i)' # NativeMode(i)
                   => \E t \in Threads :
                         /\ th[t].pc = "ctl" /\ th[t].op = "set"
                         /\ th[t].inst = i /\ th[t].field = "application"
                         /\ th'[t].res = OK
                         /\ NativeMode(i)' = th[t].val.i]_vars

\* an application set to AUDIO has been made on an encoder constructed for
\* VOIP, and the block is now in AUDIO mode
C21_Witness ==
    \E t \in Threads :
        /\ Done(t, "set") /\ th[t].field = "application"
        /\ th[t].val.i = APPLICATION_AUDIO
        /\ inst[th[t].inst].mode = APPLICATION_VOIP
        /\ NativeMode(th[t].inst) = APPLICATION_AUDIO

-----------------------------------------------------------------------------
(* Control requests: C22, C23, C30 (checked under SpecSeq) *)

\* thread t has issued, or is about to issue, the control request th[t].req
Requesting(t) == th[t].req # NoReq

\* C22: every control request a call on an instance issues goes to the
\* control function of the instance's role, an encoder's to encoder_ctl
\* and a decoder's to decoder_ctl, with a member of that role's request
\* enum; reset_state issues RESET_STATE.
C22_RequestMatchesRole ==
    \A t \in Threads :
        /\ Requesting(t)
              => /\ th[t].req.cap = inst[th[t].inst].kind
                 /\ th[t].req.member \in ControlRequests(th[t].req.cap)
                 /\ th[t].op = "reset_state"
                       => th[t].req.member = <<"RESET_STATE", "">>
        /\ (th[t].op \in CtlOps /\ th[t].ncalls > 0) => Requesting(t)

C22_Witness ==
    \E t \in Threads :
        /\ Done(t, "get") /\ th[t].ncalls = 1
        /\ inst[th[t].inst].kind = "decoder"
        /\ th[t].req.cap = "decoder"
        /\ th[t].req.member = <<"GET", "bandwidth">>

\* C23: reset_state passes no value and no output cell with its request;
\* it raises an OpusError carrying the native status when that is not OK,
\* and returns normally, with nothing, when it is OK.
C23_ResetFailsLikeSet ==
    \A t \in Threads :
        /\ th[t].op = "reset_state"
              => (th[t].req.arg = "none" /\ th[t].val = NoVal)
        /\ (Done(t, "reset_state") /\ th[t].res # OK)
              => /\ th[t].status = "raised"
                 /\ th[t].err = OpusError(th[t].res)
        /\ (Done(t, "reset_state") /\ th[t].res = OK)
              => /\ th[t].status = "returned"
                 /\ th[t].out = NoVal

C23_Witness ==
    \E t \in Threads :
        /\ Done(t, "reset_state")
        /\ th[t].res = INVALID_PACKET
        /\ th[t].status = "raised"
        /\ th[t].err.errno = INVALID_PACKET

\* C30: a getter whose native control call answers a status other than OK
\* raises an OpusError carrying that status and returns nothing; a getter
\* that returns a value has had OK from its one native call.
C30_FailedGetRaises ==
    \A t \in Threads :
        /\ (Done(t, "get") /\ th[t].res # OK)
              => /\ th[t].status = "raised"
                 /\ th[t].err = OpusError(th[t].res)
                 /\ th[t].out = NoVal
        /\ (Done(t, "get") /\ th[t].status = "returned")
              => (th[t].res = OK /\ th[t].ncalls = 1
                    /\ th[t].req.arg = "cell")

C30_Witness ==
    \E t \in Threads :
        /\ Done(t, "get") /\ th[t].field = "gain"
        /\ th[t].res = BAD_ARG
        /\ th[t].status = "raised"

-----------------------------------------------------------------------------
(* Frame sizes of decode_plc_fec: C24, C28, C29 (checked under SpecSeq) *)

\* samples in 2.5 ms at each supported rate
SamplesIn2500us ==
    [f \in _SUPPORTED_FREQS |->
        CASE f = 8000 -> 20 [] f = 12000 -> 30 [] f = 16000 -> 40
          [] f = 24000 -> 60 [] OTHER -> 120]

\* thread t is in decode_plc_fec, past its argument check
InPlcFec(t) ==
    th[t].op = "decode_plc_fec"
    /\ (PastChecks(t) \/ (th[t].pc = "done" /\ th[t].ncalls > 0))

C28_FrameFitsBuffer ==
    \A t \in Threads :
        (th[t].op \in {"decode", "decode_plc_fec"} /\ PastChecks(t))
        => th[t].frame_size * inst[th[t].inst].channels
              <= buf[th[t].inst].cap

\* C29: decode_plc_fec with a payload and without FEC hands the native
\* decode what decode hands it, and returns what decode returns for the
\* same native result.
C29_PlcFecFastPathIsDecode ==
    \A t \in Threads :
        (InPlcFec(t) /\ th[t].data /\ ~th[t].fec)
        => /\ th[t].frame_size = PCM_BUFFER_SAMPLES
           /\ (th[t].pc = "done" /\ th[t].status = "returned")
                 => th[t].out = DecodeReturn(buf[th[t].inst], th[t].res,
                                             inst[th[t].inst].channels)

-----------------------------------------------------------------------------
(* One native init per state block: C25 (checked under SpecSeq) *)

SizeQueries ==
    {"opus_encoder_get_size", "opus_decoder_get_size",
     "opus_repacketizer_get_size"}

\* the constructor of slot i made exactly: size query, allocation, init
InitSequence(i) ==
    /\ Len(inst[i].calls) = 3
    /\ inst[i].calls[1] \in SizeQueries
    /\ inst[i].calls[2] = "ffi.new"
    /\ inst[i].calls[3] \in NativeInits
    /\ nat[i].inits = 1

\* C25: every state block is initialised exactly once before use: a
\* constructor that returns made a size query, an allocation and one
\* native init, in that order; every encode, decode or control call is on
\* an instance whose one init succeeded; and no step after construction
\* runs the native init of a block again.
C25_InitOnceBeforeUse ==
    /\ [](/\ \A i \in Insts : inst[i].status = "live" => InitSequence(i)
          /\ \A t \in Threads :
                th[t].inst # 0
                => /\ InitSequence(th[t].inst)
                   /\ ~InitFailed(th[t].inst))
    /\ [][\A i \in Insts :
             inst[i].status # "none" => nat'[i].inits = nat[i].inits]_vars

C25_Witness ==
    \E t \in Threads :
        /\ th[t].pc = "done" /\ th[t].ncalls = 1
        /\ th[t].op = "decode"
        /\ inst[th[t].inst].calls =
              <<"opus_decoder_get_size", "ffi.new", "opus_decoder_init">>
        /\ nat[th[t].inst].inits = 1
        /\ nat[th[t].inst].init_ret = <<OK>>

-----------------------------------------------------------------------------
(* Native calls per facade call: C26 (checked under SpecSeq) *)

\* C26: nothing is retried: a call of encode, decode or decode_plc_fec
\* makes at most one native encode / decode call, and none when its
\* argument check raises; a completed get, set or reset_state has made
\* exactly one native control call, whether it returned or raised.
C26_OneNativeCallPerCall ==
    \A t \in Threads :
        /\ th[t].op \in CodecOps
              => /\ th[t].ncalls <= 1
                 /\ (th[t].pc = "done" /\ th[t].err.etype = "ValueError")
                       => th[t].ncalls = 0
        /\ (th[t].op \in CtlOps /\ th[t].pc = "done")
              => th[t].ncalls = 1

-----------------------------------------------------------------------------
(* No call waits for the lock forever: C27 (checked under SpecFair) *)

\* a held lock is held by a thread that is inside its with block on that
\* instance, in the native call or reading the buffer
HolderInside(i) ==
    lock[i] # 0
    => /\ th[lock[i]].inst = i
       /\ th[lock[i]].pc \in {"native", "read"}

====
